---- MODULE Spec2Model ----
(***************************************************************************)
(* A model of dataclass_tools/tools.py: the field-level serializer and     *)
(* deserializer of dataclass instances.                                    *)
(*                                                                         *)
(* Python values are records tagged by k:                                  *)
(*   [k |-> "none"]                          None                          *)
(*   [k |-> "prim", v |-> s]                 an atomic scalar (a number, a *)
(*                                           bool, a str never iterated)   *)
(*   [k |-> "enum", cls |-> c, name |-> s]   a member of an Enum class     *)
(*   [k |-> "type", name |-> s]              a class object (e.g. str)     *)
(*   [k |-> "inst", cls |-> c, f |-> pairs]  a dataclass instance          *)
(*   [k |-> "list" | "tuple", items |-> seq] a list / a tuple              *)
(*   [k |-> "dict", items |-> pairs]         a dict, in insertion order    *)
(* and a raised exception is [k |-> "err", e |-> class, why |-> site].     *)
(* Only printing_format = False is modelled (the unit-printing helpers of  *)
(* lines 17-52 and 201-207 depend on the external quantities package).     *)
(***************************************************************************)
EXTENDS Integers, Sequences, FiniteSets, TLC

VARIABLES schema, root, obj, colls, tree, via, build, out, pc

vars == <<schema, root, obj, colls, tree, via, build, out, pc>>

----------------------------------------------------------------------------
(* Python values *)

NoneStr == "<None>"

PyNone == [k |-> "none"]

Prim(s) == [k |-> "prim", v |-> s]

EnumMember(c, n) == [k |-> "enum", cls |-> c, name |-> n]

TypeObj(n) == [k |-> "type", name |-> n]

Inst(c, pairs) == [k |-> "inst", cls |-> c, f |-> pairs]

PyList(s) == [k |-> "list", items |-> s]

PyTuple(s) == [k |-> "tuple", items |-> s]

Dict(pairs) == [k |-> "dict", items |-> pairs]

Err(e, why) == [k |-> "err", e |-> e, why |-> why]

IsErr(x) == x.k = "err"

AnyErr(s) == \E i \in 1..Len(s) : IsErr(s[i])

FirstErr(s) == s[CHOOSE i \in 1..Len(s) : IsErr(s[i]) /\ \A j \in 1..(i-1) : ~IsErr(s[j])]

\* Truthiness of an Optional[str] option: None and "" are both falsy.
Truthy(s) == s # NoneStr /\ s # ""

\* p or q, for two strings
PyOr(p, q) == IF Truthy(p) THEN p ELSE q

Hashable(x) == x.k \in {"prim", "enum", "none", "type"}

\* isinstance(x, get_args(PERMITED_KEY_TYPES))
PermittedKey(x) == x.k \in {"prim", "enum"}

----------------------------------------------------------------------------
(* dict and attribute access *)

PairKeys(pairs) == {pairs[i][1] : i \in 1..Len(pairs)}

PairGet(pairs, key) == pairs[CHOOSE i \in 1..Len(pairs) : pairs[i][1] = key][2]

HasKey(d, key) == key \in PairKeys(d.items)

DictGet(d, key) == PairGet(d.items, key)

\* d[key] = v: an existing key keeps its position, a new key is appended.
DictSet(d, key, v) ==
    IF HasKey(d, key)
    THEN Dict([i \in 1..Len(d.items) |->
                 IF d.items[i][1] = key THEN <<key, v>> ELSE d.items[i]])
    ELSE Dict(Append(d.items, <<key, v>>))

RECURSIVE DictUpdate(_, _)
\* {**d, **Dict(pairs)}
DictUpdate(d, pairs) ==
    IF pairs = <<>> THEN d
    ELSE DictUpdate(DictSet(d, pairs[1][1], pairs[1][2]), Tail(pairs))

\* dct.get(key)
PyGet(dct, key) ==
    IF dct.k = "dict"
    THEN IF HasKey(dct, key) THEN DictGet(dct, key) ELSE PyNone
    ELSE Err("AttributeError", "get")

\* dct[key] for a string key
PySubscript(dct, key) ==
    IF dct.k = "dict"
    THEN IF HasKey(dct, key) THEN DictGet(dct, key) ELSE Err("KeyError", key)
    ELSE Err("TypeError", "subscript")

\* table[x] for a dict table and any value x as the key
PyLookup(table, x) ==
    IF table.k # "dict" THEN Err("TypeError", "subscript")
    ELSE IF ~Hashable(x) THEN Err("TypeError", "unhashable")
    ELSE IF x.k = "prim" /\ HasKey(table, x.v) THEN DictGet(table, x.v)
    ELSE Err("KeyError", "lookup")

Iterable(x) == x.k \in {"list", "tuple", "dict"}

\* the items a for loop over x yields: a dict yields its keys
IterItems(x) ==
    IF x.k = "dict" THEN [i \in 1..Len(x.items) |-> Prim(x.items[i][1])]
    ELSE x.items

\* an Enum member carries the attribute "name" (its member name)
HasAttr(o, a) ==
    \/ o.k = "inst" /\ a \in PairKeys(o.f)
    \/ o.k = "enum" /\ a = "name"

GetAttr(o, a) == IF o.k = "enum" THEN Prim(o.name) ELSE PairGet(o.f, a)

\* type(obj).__name__
TypeName(o) ==
    CASE o.k \in {"inst", "enum"} -> o.cls
      [] o.k = "prim" -> "str"
      [] o.k = "none" -> "NoneType"
      [] OTHER -> o.k

----------------------------------------------------------------------------
(* declared types, options, fields *)

TPrim == [t |-> "prim"]

TRec(c) == [t |-> "rec", cls |-> c]

TList(a) == [t |-> "list", arg |-> a]

TTuple(a) == [t |-> "tuple", arg |-> a]

TDict(a) == [t |-> "dict", arg |-> a]

TUnion(cs) == [t |-> "union", of |-> cs]

\* hasattr(typ, "__origin__")
HasOrigin(typ) == typ.t \in {"list", "tuple", "dict", "union"}

\* a slip: no declared type is recognised as a dataclass
is_dataclass_never(typ) == FALSE

is_dataclass(typ) == typ.t = "rec"

DEFAULT_TYPE_LABEL == "typ"

_get_type_default(typname) == typname

CustomTypeName(typname) ==
    CASE typname = "Child" -> "kid"
      [] typname = "Adult" -> "grownup"
      [] OTHER -> "thing"

TNDefault == [k |-> "callable", f |-> "default"]

TNCustom == [k |-> "callable", f |-> "custom"]

TNStr(s) == [k |-> "str", s |-> s]

BoolOpt(b) == [isstr |-> FALSE, b |-> b, s |-> ""]

StrOpt(s) == [isstr |-> TRUE, b |-> FALSE, s |-> s]

\* truthiness of a Union[bool, str] option
OptTruthy(a) == IF a.isstr THEN a.s # "" ELSE a.b

NoTable == <<>>

DeSerializerOptions ==
    [subs_by_attr |-> NoneStr, subs_collection_name |-> NoneStr,
     flatten |-> FALSE, add_type |-> BoolOpt(FALSE), type_label |-> NoneStr,
     type_name |-> TNDefault, subtype_table |-> NoTable,
     overwrite_key |-> NoneStr]

NoDefault == [has |-> FALSE, v |-> PyNone]

Default(v) == [has |-> TRUE, v |-> v]

Field(n, typ, o, d) == [name |-> n, type |-> typ, options |-> o, default |-> d]

fields(c) == schema[c]

----------------------------------------------------------------------------
(* ToolsField properties *)

\* a slip: overwrite_key is ignored
_key_name(fld) == fld.name

_key(fld) == PyOr(fld.options.overwrite_key, fld.name)

_type_str(fld, typname) ==
    LET name == fld.options.type_name IN
    IF name.k = "str" THEN TypeObj("str")
    ELSE IF name.k = "callable"
    THEN Prim(IF name.f = "default" THEN _get_type_default(typname)
              ELSE CustomTypeName(typname))
    ELSE Err("ValueError", "type_name")

\* a slip: subs_collection_name is ignored
_collection_key_name(fld) == fld.name

_collection_key(fld) ==
    IF ~Truthy(fld.options.subs_collection_name) THEN fld.name
    ELSE fld.options.subs_collection_name

\* a slip: the default label is used for a flattened field too
_type_key_unflattened(fld) == PyOr(fld.options.type_label, DEFAULT_TYPE_LABEL)

_type_key(fld) ==
    LET default_label == IF ~fld.options.flatten THEN DEFAULT_TYPE_LABEL
                         ELSE _key(fld)
    IN PyOr(fld.options.type_label, default_label)

----------------------------------------------------------------------------
(* the serializer *)

\* type(obj)(items): a sequence of the container kind of obj
SameKind(o, items) == [k |-> o.k, items |-> items]

RECURSIVE _serialize_field(_, _, _)
RECURSIVE _serialize_dataclass(_)

\* a slip: nested dataclass instances are not serialized recursively
_get_value_shallow(o) == o

_get_value(o) ==
    IF o.k = "inst" THEN _serialize_dataclass(o)
    ELSE IF o.k = "enum" THEN Prim(o.name)
    ELSE o

_get_and_process_value(fld, o) ==
    LET options == fld.options IN
    IF Truthy(options.subs_by_attr)
    THEN IF ~HasAttr(o, options.subs_by_attr)
         THEN Err("AttributeError", "getattr")
         ELSE LET attr == GetAttr(o, options.subs_by_attr) IN
              IF ~PermittedKey(attr) THEN Err("KeyTypeError", "subs_by_attr")
              ELSE attr
    ELSE LET value == _get_value(o) IN
         IF IsErr(value) THEN value
         ELSE IF OptTruthy(options.add_type)
         THEN LET type_str == _type_str(fld, TypeName(o)) IN
              IF IsErr(type_str) THEN type_str
              ELSE IF value.k # "dict" THEN Err("TypeError", "not a mapping")
              ELSE DictUpdate(Dict(<< <<_type_key(fld), type_str>> >>),
                              value.items)
         ELSE value

\* a slip: a flattened field is wrapped under its key like any other
_serialize_field_wrapped(fld, o, in_collection) ==
    LET options == fld.options
        name == _key(fld)
    IN
    IF o.k \in {"list", "tuple"}
    THEN LET r == [i \in 1..Len(o.items) |->
                     _serialize_field(fld, o.items[i], TRUE)]
         IN IF AnyErr(r) THEN FirstErr(r)
            ELSE Dict(<< <<name, SameKind(o, r)>> >>)
    ELSE LET value ==
               IF o.k = "dict"
               THEN LET r == [i \in 1..Len(o.items) |->
                                _serialize_field(fld, o.items[i][2], TRUE)]
                    IN IF AnyErr(r) THEN FirstErr(r)
                       ELSE Dict([i \in 1..Len(o.items) |->
                                    <<o.items[i][1], r[i]>>])
               ELSE _get_and_process_value(fld, o)
         IN IF IsErr(value) THEN value
            ELSE IF in_collection THEN value
            ELSE Dict(<< <<name, value>> >>)

_serialize_field(fld, o, in_collection) ==
    LET options == fld.options
        name == _key(fld)
    IN
    IF o.k \in {"list", "tuple"}
    THEN LET r == [i \in 1..Len(o.items) |->
                     _serialize_field(fld, o.items[i], TRUE)]
         IN IF AnyErr(r) THEN FirstErr(r)
            ELSE Dict(<< <<name, SameKind(o, r)>> >>)
    ELSE LET value ==
               IF o.k = "dict"
               THEN LET r == [i \in 1..Len(o.items) |->
                                _serialize_field(fld, o.items[i][2], TRUE)]
                    IN IF AnyErr(r) THEN FirstErr(r)
                       ELSE Dict([i \in 1..Len(o.items) |->
                                    <<o.items[i][1], r[i]>>])
               ELSE _get_and_process_value(fld, o)
         IN IF IsErr(value) THEN value
            ELSE IF options.flatten \/ in_collection THEN value
            ELSE Dict(<< <<name, value>> >>)

RECURSIVE MergeItems(_, _)
\* {key: value for x in list_of_dict_repr for key, value in x.items()}
MergeItems(acc, reprs) ==
    IF reprs = <<>> THEN acc
    ELSE IF reprs[1].k # "dict" THEN Err("AttributeError", "items")
    ELSE MergeItems(DictUpdate(acc, reprs[1].items), Tail(reprs))

_serialize_dataclass(o) ==
    LET fs == fields(o.cls)
        list_of_dict_repr == [i \in 1..Len(fs) |->
            _serialize_field(fs[i], GetAttr(o, fs[i].name), FALSE)]
    IN IF AnyErr(list_of_dict_repr) THEN FirstErr(list_of_dict_repr)
       ELSE MergeItems(Dict(<<>>), list_of_dict_repr)

serialize_dataclass(o) ==
    IF o.k # "inst" THEN Err("TypeError", "not a dataclass")
    ELSE _serialize_dataclass(o)

----------------------------------------------------------------------------
(* the deserializer *)

Ok(typ) == [k |-> "ok", typ |-> typ]

\* a slip: every sequence is rebuilt as a list
Origin_list(typ, items) == PyList(items)

\* origin(items) for origin = self.field_.type.__origin__, list or tuple
Origin(typ, items) == [k |-> typ.t, items |-> items]

\* a slip: the type tag is never consulted, the declared type stands
_field_type_declared(fld, dct) == Ok(fld.type)

_field_type(fld, dct) ==
    IF OptTruthy(fld.options.add_type)
    THEN IF fld.options.subtype_table = NoTable
         THEN Err("TypeError", "add_type without subtype_table")
         ELSE LET type_repr == PySubscript(dct, _type_key(fld))
                  table == fld.options.subtype_table
              IN IF IsErr(type_repr) THEN type_repr
                 ELSE IF ~Hashable(type_repr)
                 THEN Err("TypeError", "unhashable")
                 ELSE IF type_repr.k = "prim" /\ type_repr.v \in PairKeys(table)
                 THEN Ok(TRec(PairGet(table, type_repr.v)))
                 ELSE Err("KeyError", "subtype_table")
    ELSE Ok(fld.type)

\* dataclass(**input_dict)
Construct(c, input_dict) ==
    LET fs == fields(c) IN
    IF \E i \in 1..Len(fs) :
          ~HasKey(input_dict, fs[i].name) /\ ~fs[i].default.has
    THEN Err("TypeError", "missing argument")
    ELSE IF \E key \in PairKeys(input_dict.items) :
               \A i \in 1..Len(fs) : fs[i].name # key
    THEN Err("TypeError", "unexpected argument")
    ELSE Inst(c, [i \in 1..Len(fs) |->
                   <<fs[i].name,
                     IF HasKey(input_dict, fs[i].name)
                     THEN DictGet(input_dict, fs[i].name)
                     ELSE fs[i].default.v>>])

RECURSIVE MergeNotNone(_, _)
\* {key: value for x in list_of_input_dict for key, value in x.items()
\*  if not value is None}
MergeNotNone(acc, reprs) ==
    IF reprs = <<>> THEN acc
    ELSE IF reprs[1].k # "dict" THEN Err("AttributeError", "items")
    ELSE LET its == reprs[1].items
             kept == SelectSeq(its, LAMBDA p : p[2].k # "none")
         IN MergeNotNone(DictUpdate(acc, kept), Tail(reprs))

RECURSIVE _deserialize_field(_, _, _, _, _)
RECURSIVE _deserialize_dataclass(_, _, _, _, _)

_deserialize_field(fld, raw_dct, in_collection, build_instance, dict_of_collections) ==
    IF HasOrigin(fld.type) /\ fld.options.flatten
    THEN Err("ValueError", "flatten")
    ELSE IF fld.type.t \in {"list", "tuple"}
    THEN LET inner_type_field == [fld EXCEPT !.type = fld.type.arg]
             raw == PySubscript(raw_dct, _key(fld))
         IN IF IsErr(raw) THEN raw
            ELSE IF ~Iterable(raw) THEN Err("TypeError", "not iterable")
            ELSE LET its == IterItems(raw)
                     r == [i \in 1..Len(its) |->
                             _deserialize_field(inner_type_field, its[i], TRUE,
                                 build_instance, dict_of_collections)]
                 IN IF AnyErr(r) THEN FirstErr(r)
                    ELSE Dict(<< <<fld.name, Origin(fld.type, r)>> >>)
    ELSE IF fld.type.t = "dict"
    THEN LET inner_type_field == [fld EXCEPT !.type = fld.type.arg]
             raw == PySubscript(raw_dct, _key(fld))
         IN IF IsErr(raw) THEN raw
            ELSE IF raw.k # "dict" THEN Err("AttributeError", "items")
            ELSE LET r == [i \in 1..Len(raw.items) |->
                             _deserialize_field(inner_type_field,
                                 raw.items[i][2], TRUE, build_instance,
                                 dict_of_collections)]
                 IN IF AnyErr(r) THEN FirstErr(r)
                    ELSE Dict(<< <<fld.name,
                                   Dict([i \in 1..Len(raw.items) |->
                                          <<raw.items[i][1], r[i]>>])>> >>)
    ELSE LET value0 == IF in_collection \/ fld.options.flatten THEN raw_dct
                       ELSE PyGet(raw_dct, _key(fld))
         IN
         IF IsErr(value0) THEN value0
         ELSE
         LET typ == _field_type(fld, value0) IN
         IF IsErr(typ) THEN typ
         ELSE
         LET subs == Truthy(fld.options.subs_by_attr)
             value1 == IF is_dataclass(typ.typ) /\ ~subs
                       THEN _deserialize_dataclass(value0, typ.typ.cls, FALSE,
                                build_instance, dict_of_collections)
                       ELSE value0
             value2 == IF is_dataclass(typ.typ) /\ build_instance /\ subs
                       THEN LET bucket == PySubscript(dict_of_collections,
                                                      _collection_key(fld))
                            IN IF IsErr(bucket) THEN bucket
                               ELSE PyLookup(bucket, value1)
                       ELSE value1
         IN IF IsErr(value2) THEN value2
            ELSE IF in_collection THEN value2
            ELSE Dict(<< <<fld.name, value2>> >>)

_deserialize_dataclass(dct, dataclass, in_collection, build_instance, dict_of_collections) ==
    LET fs == fields(dataclass)
        list_of_input_dict == [i \in 1..Len(fs) |->
            _deserialize_field(fs[i], dct, in_collection, build_instance,
                               dict_of_collections)]
    IN IF AnyErr(list_of_input_dict) THEN FirstErr(list_of_input_dict)
       ELSE LET input_dict == MergeNotNone(Dict(<<>>), list_of_input_dict)
            IN IF IsErr(input_dict) THEN input_dict
               ELSE IF build_instance THEN Construct(dataclass, input_dict)
               ELSE input_dict

\* a slip: build_instance is not forwarded, so its default False applies
deserialize_dataclass_nobuild(dct, dataclass, build_instance, dict_of_collections) ==
    IF dataclass \notin DOMAIN schema
    THEN Err("TypeError", "not a dataclass")
    ELSE _deserialize_dataclass(dct, dataclass, FALSE, FALSE,
                                dict_of_collections)

deserialize_dataclass(dct, dataclass, build_instance, dict_of_collections) ==
    IF dataclass \notin DOMAIN schema
    THEN Err("TypeError", "not a dataclass")
    ELSE _deserialize_dataclass(dct, dataclass, FALSE, build_instance,
                                dict_of_collections)

----------------------------------------------------------------------------
(* schemas and inputs: the record types of the test suite, with one field   *)
(* "item" of the root record Parent carrying the declared type and options  *)
(* under study, next to one plain sibling field                             *)

MaxLen == 2

ClassNames == {"Parent", "Child", "Adult"}

Plain(n) == Field(n, TPrim, DeSerializerOptions, NoDefault)

ChildFields == <<Plain("age"), Plain("name")>>

AdultFields == <<Plain("name"), Plain("job")>>

\* a field with a default follows the fields without one
ParentFields(typ, o, d, sib) ==
    IF d.has THEN <<Plain(sib), Field("item", typ, o, d)>>
    ELSE <<Field("item", typ, o, d), Plain(sib)>>

Schema(typ, o, d, sib) ==
    [c \in ClassNames |->
        CASE c = "Parent" -> ParentFields(typ, o, d, sib)
          [] c = "Child" -> ChildFields
          [] c = "Adult" -> AdultFields]

Child(age, name) ==
    Inst("Child", << <<"age", Prim(age)>>, <<"name", Prim(name)>> >>)

Adult(name, job) ==
    Inst("Adult", << <<"name", Prim(name)>>, <<"job", Prim(job)>> >>)

Children == {Child("1", "leon"), Child("2", "nathan"), Child("3", "leon")}

People == Children \cup {Adult("nathan", "cook")}

SeqsUpTo(S, n) == UNION {[1..m -> S] : m \in 0..n}

Keyed(s) == Dict([i \in 1..Len(s) |-> <<ToString(i), s[i]>>])

Types ==
    {TPrim, TRec("Child"), TUnion({"Child", "Adult"}),
     TList(TRec("Child")), TTuple(TRec("Child")), TDict(TRec("Child")),
     TList(TUnion({"Child", "Adult"}))}

\* a sequence whose elements are themselves sequences: list[list[Child]]
NestedType == TList(TList(TRec("Child")))

\* lists of up to MaxLen lists, each empty or holding one Child
NestedLists ==
    {PyList(s) : s \in SeqsUpTo({PyList(t) : t \in SeqsUpTo(Children, 1)},
                                MaxLen)}

\* the runtime values a field of the declared type is given
ValuesOf(typ) ==
    CASE typ.t = "prim" -> {Prim("a"), PyNone, EnumMember("E", "RED")}
      [] typ.t = "rec" -> Children
      [] typ.t = "union" -> People
      [] typ.t = "list" /\ typ.arg.t = "list" -> NestedLists
      [] typ.t = "list" ->
           {PyList(s) : s \in SeqsUpTo(IF typ.arg.t = "rec" THEN Children
                                        ELSE People, MaxLen)}
      [] typ.t = "tuple" -> {PyTuple(s) : s \in SeqsUpTo(Children, MaxLen)}
      [] typ.t = "dict" -> {Keyed(s) : s \in SeqsUpTo(Children, MaxLen)}

TableByName == << <<"Child", "Child">>, <<"Adult", "Adult">> >>

TableByCustom == << <<"kid", "Child">>, <<"grownup", "Adult">> >>

Opt == DeSerializerOptions

PlainOptions ==
    {Opt} \cup {[Opt EXCEPT !.overwrite_key = key] : key \in {"no_name", "title", ""}}

SubsOptions ==
    {[Opt EXCEPT !.subs_by_attr = "name", !.subs_collection_name = c,
                 !.overwrite_key = key] :
        c \in {NoneStr, "people"}, key \in {NoneStr, "no_name"}}

TypeOptions ==
    {[Opt EXCEPT !.add_type = a, !.subtype_table = t, !.type_label = l,
                 !.flatten = f] :
        a \in {BoolOpt(TRUE), StrOpt("kind")}, t \in {NoTable, TableByName},
        l \in {NoneStr, "label"}, f \in BOOLEAN}

TypeNameOptions ==
    {[Opt EXCEPT !.add_type = BoolOpt(TRUE), !.type_name = n,
                 !.subtype_table = t] :
        n \in {TNCustom, TNStr("X")}, t \in {TableByName, TableByCustom}}

FlattenOptions ==
    {[Opt EXCEPT !.flatten = TRUE, !.overwrite_key = key] :
        key \in {NoneStr, "no_name"}}

OptionChoices ==
    PlainOptions \cup SubsOptions \cup TypeOptions \cup TypeNameOptions
        \cup FlattenOptions

Scenario(typ, o, d, sib) == [typ |-> typ, o |-> o, d |-> d, sib |-> sib]

Scenarios ==
    {Scenario(typ, o, NoDefault, "title") : typ \in Types, o \in OptionChoices}
    \cup {Scenario(typ, o, Default(PyNone), "title") :
             typ \in Types, o \in {Opt, [Opt EXCEPT !.overwrite_key = "no_name"]}}
    \cup {Scenario(TPrim, Opt, Default(Prim("d")), "title")}
    \cup {Scenario(typ, o, NoDefault, "name") :
             typ \in Types, o \in FlattenOptions}
    \cup {Scenario(NestedType, o, NoDefault, "title") : o \in PlainOptions}

\* Parent(item=v, <sib>="p")
ParentOf(sc, v) ==
    LET fs == ParentFields(sc.typ, sc.o, sc.d, sc.sib) IN
    Inst("Parent", [i \in 1..Len(fs) |->
                      <<fs[i].name,
                        IF fs[i].name = "item" THEN v ELSE Prim("p")>>])

\* the record instances a field value holds
Elements(v) ==
    CASE v.k = "inst" -> <<v>>
      [] v.k \in {"list", "tuple"} -> v.items
      [] v.k = "dict" -> [i \in 1..Len(v.items) |-> v.items[i][2]]
      [] OTHER -> <<>>

\* {bucket: {child.name: child for child in childs}}
IndexOf(bucket, v) ==
    LET es == Elements(v) IN
    Dict(<< <<bucket,
              DictUpdate(Dict(<<>>),
                         [i \in 1..Len(es) |->
                            <<GetAttr(es[i], "name").v, es[i]>>])>> >>)

CollectionChoices(sc, v) ==
    IF Truthy(sc.o.subs_by_attr)
    THEN {PyNone, IndexOf("item", v), IndexOf("people", v)}
    ELSE {PyNone}

----------------------------------------------------------------------------
(* the state machine: one call of serialize_dataclass (or a plain tree      *)
(* supplied by the caller), an optional edit of the tree by the caller, one *)
(* call of deserialize_dataclass                                            *)

Init ==
    \E sc \in Scenarios :
      \E v \in ValuesOf(sc.typ) :
        \E c \in CollectionChoices(sc, v) :
          /\ schema = Schema(sc.typ, sc.o, sc.d, sc.sib)
          /\ root = "Parent"
          /\ obj = ParentOf(sc, v)
          /\ colls = c
          /\ tree = PyNone
          /\ via = "none"
          /\ build = FALSE
          /\ out = PyNone
          /\ pc = "start"

RECURSIVE asdict(_)
\* dataclasses.asdict: the plain recursive field-name -> value tree
asdict(o) ==
    CASE o.k = "inst" ->
           Dict([i \in 1..Len(o.f) |-> <<o.f[i][1], asdict(o.f[i][2])>>])
      [] o.k \in {"list", "tuple"} ->
           [k |-> o.k, items |-> [i \in 1..Len(o.items) |-> asdict(o.items[i])]]
      [] o.k = "dict" ->
           Dict([i \in 1..Len(o.items) |->
                   <<o.items[i][1], asdict(o.items[i][2])>>])
      [] OTHER -> o

\* the plain tree of instance o with each field of the top level under its
\* effective key: {"age": age, OVERWRITE_KEY: name}
KeyedTree(o) ==
    LET fs == fields(o.cls) IN
    DictUpdate(Dict(<<>>),
               [i \in 1..Len(fs) |->
                  <<_key(fs[i]), asdict(GetAttr(o, fs[i].name))>>])

\* the caller hands over a plain tree of the instance instead of the
\* serializer's: deserialize_dataclass(asdict(x), type(x)), or the plain
\* tree written under the effective keys
PlainTree ==
    /\ pc = "start"
    /\ tree' \in {asdict(obj), KeyedTree(obj)}
    /\ via' = "plain"
    /\ pc' = "tree"
    /\ UNCHANGED <<schema, root, obj, colls, build, out>>

Serialize ==
    /\ pc = "start"
    /\ tree' = serialize_dataclass(obj)
    /\ via' = "serialize"
    /\ pc' = "tree"
    /\ UNCHANGED <<schema, root, obj, colls, build, out>>

\* d without its entry for key
Without(d, key) == Dict(SelectSeq(d.items, LAMBDA p : p[1] # key))

\* the trees a caller gets by deleting one entry of the tree, at the top
\* level or inside a nested mapping
Edits(t) ==
    {Without(t, key) : key \in PairKeys(t.items)}
    \cup UNION {{DictSet(t, key, Without(DictGet(t, key), k2)) :
                   k2 \in PairKeys(DictGet(t, key).items)} :
                key \in {k1 \in PairKeys(t.items) : DictGet(t, k1).k = "dict"}}

DropKey ==
    /\ pc = "tree"
    /\ via = "serialize"
    /\ tree.k = "dict"
    /\ tree' \in Edits(tree)
    /\ via' = "edit"
    /\ UNCHANGED <<schema, root, obj, colls, build, out, pc>>

Deserialize ==
    /\ pc = "tree"
    /\ ~IsErr(tree)
    /\ \E b \in BOOLEAN :
         /\ build' = b
         /\ out' = deserialize_dataclass(tree, root, b, colls)
    /\ pc' = "done"
    /\ UNCHANGED <<schema, root, obj, colls, tree, via>>

Next == Serialize \/ PlainTree \/ DropKey \/ Deserialize

Spec == Init /\ [][Next]_vars

----------------------------------------------------------------------------
(* what the properties speak about *)

ItemField ==
    LET fs == schema["Parent"] IN
    fs[CHOOSE i \in 1..Len(fs) : fs[i].name = "item"]

ItemOpts == ItemField.options

ItemType == ItemField.type

ItemVal == GetAttr(obj, "item")

Serialized == pc = "tree" /\ via = "serialize"

RoundTrip == pc = "done" /\ via = "serialize"

\* every None-valued field of the root record has the default None
NoneOnlyAtNoneDefault ==
    \A i \in 1..Len(schema[root]) :
       LET fld == schema[root][i] IN
       GetAttr(obj, fld.name) = PyNone =>
           fld.default.has /\ fld.default.v = PyNone

PrimitiveNoOptions ==
    ItemType.t = "prim" /\ ItemOpts = Opt /\ ItemVal.k \in {"prim", "none"}

----------------------------------------------------------------------------
(* C1 *)

\* C1 as stated: for every record instance whose fields are all primitive
\* leaves without options, deserialize(serialize(x), type(x),
\* build_instance=True) equals x.
C1_RoundTripAnyLeaf ==
    (RoundTrip /\ build /\ PrimitiveNoOptions) => out = obj

\* C1, amended: the round trip returns x for every such instance in which
\* a field holds None only if None is that field's default (a None entry is
\* dropped before construction, so the constructor supplies the default, or
\* fails when there is none).
C1_RoundTrip ==
    (RoundTrip /\ build /\ PrimitiveNoOptions /\ NoneOnlyAtNoneDefault)
        => out = obj

C1_Witness ==
    /\ RoundTrip /\ build /\ PrimitiveNoOptions
    /\ ItemVal = Prim("a")
    /\ out = obj

----------------------------------------------------------------------------
(* C2 *)

\* the asdict tree in which every Enum member is replaced by its member name
RECURSIVE EnumNames(_)
EnumNames(v) ==
    CASE v.k = "enum" -> Prim(v.name)
      [] v.k \in {"list", "tuple"} ->
            [v EXCEPT !.items = [i \in DOMAIN v.items |-> EnumNames(v.items[i])]]
      [] v.k = "dict" ->
            [v EXCEPT !.items = [i \in DOMAIN v.items |->
                                   <<v.items[i][1], EnumNames(v.items[i][2])>>]]
      [] OTHER -> v

\* C2 (as stated): for every record instance whose fields carry no options,
\* serialize_dataclass returns exactly the tree of dataclasses.asdict.
C2_PlainTreeAnyValue ==
    (Serialized /\ ItemOpts = Opt) => tree = asdict(obj)

\* C2, reading an Enum member as its member name (the serializer's stated
\* rendering of enums): for every record instance whose fields carry no
\* options, serialize_dataclass returns the plain recursive field-name ->
\* value tree of dataclasses.asdict:
\* one key per field in field order, nested records as nested mappings,
\* sequences of the same kind and order, mappings with the same keys.
C2_PlainTree ==
    (Serialized /\ ItemOpts = Opt) => tree = EnumNames(asdict(obj))

C2_Witness ==
    /\ Serialized /\ ItemOpts = Opt
    /\ ItemVal.k = "tuple" /\ Len(ItemVal.items) = 2
    /\ ItemVal.items[1] # ItemVal.items[2]
    /\ tree = asdict(obj)

----------------------------------------------------------------------------
(* C3 *)

\* a union-typed field (or list of unions) tagged with add_type=True under
\* the default label, with the table {"Child": Child, "Adult": Adult}
TaggedUnion ==
    /\ ItemType.t = "union" \/ (ItemType.t = "list" /\ ItemType.arg.t = "union")
    /\ ItemOpts = [Opt EXCEPT !.add_type = BoolOpt(TRUE),
                              !.subtype_table = TableByName]

\* the serialized nodes of the field's records, in order
ItemNodes(t) ==
    LET n == DictGet(t, "item") IN
    IF ItemType.t = "union" THEN <<n>> ELSE n.items

\* C3: serializing an instance of B in such a field yields a nested mapping
\* whose first entry is "typ" -> "B" followed by B's own keys, and
\* deserializing that tree with the same table reconstructs the field as a
\* B: B's constructor arguments, or the B instance when build_instance is
\* true.
C3_TypeTagRoundTrip ==
    TaggedUnion =>
      /\ Serialized =>
            /\ tree.k = "dict" /\ HasKey(tree, "item")
            /\ LET es == Elements(ItemVal)
                   ns == ItemNodes(tree)
               IN /\ Len(ns) = Len(es)
                  /\ \A i \in 1..Len(es) :
                        /\ ns[i].k = "dict"
                        /\ ns[i].items[1] = <<"typ", Prim(es[i].cls)>>
                        /\ Tail(ns[i].items) = asdict(es[i]).items
      /\ RoundTrip => out = (IF build THEN obj ELSE asdict(obj))

C3_Witness ==
    /\ TaggedUnion /\ RoundTrip /\ build
    /\ ItemType.t = "list" /\ Len(ItemVal.items) = 2
    /\ ItemVal.items[1].cls = "Child" /\ ItemVal.items[2].cls = "Adult"
    /\ out = obj

----------------------------------------------------------------------------
(* C4 *)

\* a list or tuple of Child records replaced by their name attribute
SubstitutedSequence ==
    /\ ItemOpts.subs_by_attr = "name"
    /\ ItemType.t \in {"list", "tuple"} /\ ItemType.arg.t = "rec"

ItemKey ==
    IF ItemOpts.overwrite_key = NoneStr THEN "item" ELSE ItemOpts.overwrite_key

Bucket ==
    IF ItemOpts.subs_collection_name = NoneStr THEN "item"
    ELSE ItemOpts.subs_collection_name

\* the collection index holds, in the field's bucket, every element of the
\* field under its name
IndexResolves ==
    /\ colls.k = "dict" /\ HasKey(colls, Bucket)
    /\ \A i \in 1..Len(ItemVal.items) :
          LET e == ItemVal.items[i] IN
          /\ HasKey(DictGet(colls, Bucket), GetAttr(e, "name").v)
          /\ DictGet(DictGet(colls, Bucket), GetAttr(e, "name").v) = e

\* C4: for a field declared as a list or tuple of a record type and
\* configured with subs_by_attr=a, serialize replaces each element of the
\* sequence by the value of its attribute a, in the original order; deserializing that tree with
\* build_instance=True and an index whose bucket (collection_name if set,
\* else the field name) maps each attribute value to its instance
\* reconstructs the original instances in the original order.
C4_AttributeSubstitution ==
    SubstitutedSequence =>
      /\ Serialized =>
            /\ tree.k = "dict" /\ HasKey(tree, ItemKey)
            /\ DictGet(tree, ItemKey) =
                 [k |-> ItemVal.k,
                  items |-> [i \in 1..Len(ItemVal.items) |->
                               GetAttr(ItemVal.items[i], "name")]]
      /\ (RoundTrip /\ build /\ IndexResolves) => out = obj

C4_Witness ==
    /\ SubstitutedSequence /\ RoundTrip /\ build /\ IndexResolves
    /\ Bucket = "people"
    /\ Len(ItemVal.items) = 2
    /\ GetAttr(ItemVal.items[1], "name") = Prim("nathan")
    /\ GetAttr(ItemVal.items[2], "name") = Prim("leon")
    /\ out = obj

----------------------------------------------------------------------------
(* C5 *)

OnlyOverwrite ==
    /\ ItemOpts.overwrite_key # NoneStr
    /\ ItemOpts = [Opt EXCEPT !.overwrite_key = ItemOpts.overwrite_key]

\* the tree holds the field's value under the overwrite key
HeldUnderKey ==
    /\ tree.k = "dict" /\ HasKey(tree, ItemOpts.overwrite_key)
    /\ DictGet(tree, ItemOpts.overwrite_key) = asdict(ItemVal)

ReturnedUnderName ==
    /\ out.k = "dict" /\ HasKey(out, "item")
    /\ DictGet(out, "item") = DictGet(tree, ItemOpts.overwrite_key)

\* C5 as stated: a field with overwrite_key=k is serialized under key k and
\* never under its own name, and deserializing a tree that holds the value
\* under k returns that value under the field's own name, for every field
\* value.
C5_OverwriteKeyAnyValue ==
    /\ (Serialized /\ ItemOpts.overwrite_key # NoneStr /\ ~IsErr(tree)) =>
          /\ HasKey(tree, ItemOpts.overwrite_key)
          /\ ~HasKey(tree, "item")
    /\ (pc = "done" /\ ~build /\ OnlyOverwrite /\ HeldUnderKey) =>
          ReturnedUnderName

\* C5, leaving aside what the design excludes (a flattened field has no
\* key, an empty overwrite_key counts as unset, a None value is dropped
\* from the arguments): a non-flattened field with a non-empty
\* overwrite_key=k is serialized under key k and not under its own name,
\* and deserializing a tree that holds the value under k returns that value
\* under the field's own name, for every field value other than None.
C5_OverwriteKey ==
    /\ (Serialized /\ Truthy(ItemOpts.overwrite_key) /\ ~ItemOpts.flatten
           /\ ~IsErr(tree)) =>
          /\ HasKey(tree, ItemOpts.overwrite_key)
          /\ ~HasKey(tree, "item")
    /\ (pc = "done" /\ ~build /\ OnlyOverwrite /\ HeldUnderKey
           /\ ItemVal # PyNone) =>
          ReturnedUnderName

C5_Witness ==
    /\ pc = "done" /\ ~build /\ OnlyOverwrite /\ HeldUnderKey
    /\ ItemOpts.overwrite_key = "no_name"
    /\ ItemVal = Prim("a")
    /\ ~HasKey(tree, "item")
    /\ ReturnedUnderName

----------------------------------------------------------------------------
(* C6 *)

FlattenedRecord == ItemOpts.flatten /\ ItemVal.k = "inst"

SiblingName ==
    LET fs == schema["Parent"] IN
    fs[CHOOSE i \in 1..Len(fs) : fs[i].name # "item"].name

\* C6: serializing a record that has a nested-record field with
\* flatten=True yields a mapping in which every serialized key of the
\* nested record is a direct sibling of the parent's other keys, and no
\* entry nests the record's mapping under the field's own key.
C6_FlattenStructure ==
    (Serialized /\ FlattenedRecord) =>
      /\ tree.k = "dict"
      /\ HasKey(tree, SiblingName)
      /\ \A key \in PairKeys(ItemVal.f) :
            /\ HasKey(tree, key)
            /\ key # SiblingName => DictGet(tree, key) = GetAttr(ItemVal, key)
      /\ \A key \in PairKeys(tree.items) : DictGet(tree, key).k # "dict"

C6_Witness ==
    /\ Serialized /\ FlattenedRecord
    /\ ItemVal = Adult("nathan", "cook")
    /\ ItemOpts.overwrite_key = "no_name"
    /\ tree = Dict(<< <<"name", Prim("nathan")>>, <<"job", Prim("cook")>>,
                      <<"title", Prim("p")>> >>)

----------------------------------------------------------------------------
(* C7 *)

MissingTable ==
    ItemOpts.add_type = BoolOpt(TRUE) /\ ItemOpts.subtype_table = NoTable

IsConfigurationError(r) ==
    IsErr(r) /\ r.why \in {"add_type without subtype_table", "flatten"}

\* C7: for every schema that has a field with add_type=True and no
\* subtype_table, and for every input tree (including one where that field
\* is an empty sequence or mapping), deserialize_dataclass fails with a
\* configuration error and returns neither an argument mapping nor an
\* instance.
C7_ConfigurationError ==
    (pc = "done" /\ MissingTable) => IsConfigurationError(out)

----------------------------------------------------------------------------
(* C8 *)

PlainCollection ==
    /\ ItemOpts = Opt
    /\ ItemType.t \in {"list", "tuple", "dict"} /\ ItemType.arg.t = "rec"

\* C8: for a sequence-of-records field, deserialize(serialize(x), type(x),
\* build_instance=True) yields a sequence of the same container kind holding
\* the same elements in the original order; for a mapping-of-records field
\* the keys after the round trip are the original keys and each key maps to
\* the deserialization of its original value (the instance, or its argument
\* mapping when build_instance is false).
C8_CollectionRoundTrip ==
    (RoundTrip /\ PlainCollection) =>
      IF build
      THEN /\ out.k = "inst"
           /\ GetAttr(out, "item").k = ItemVal.k
           /\ GetAttr(out, "item").items = ItemVal.items
           /\ out = obj
      ELSE /\ out.k = "dict" /\ HasKey(out, "item")
           /\ DictGet(out, "item") = asdict(ItemVal)

C8_Witness ==
    /\ RoundTrip /\ PlainCollection /\ build
    /\ ItemVal = PyTuple(<<Child("2", "nathan"), Child("1", "leon")>>)
    /\ GetAttr(out, "item") = ItemVal

----------------------------------------------------------------------------
(* C9 *)

\* the values at the positions of a field's records, by declared type
Positions(typ, v) ==
    CASE typ.t \in {"list", "tuple"} -> v.items
      [] typ.t = "dict" -> [i \in 1..Len(v.items) |-> v.items[i][2]]
      [] OTHER -> <<v>>

\* the field holds records, and the tree of the round trip holds the
\* field's entry (no sibling is written under the same key)
HoldsRecords ==
    /\ ItemVal.k \notin {"none", "prim", "enum"}
    /\ ItemOpts.overwrite_key # SiblingName

RECURSIVE NoInstance(_)
NoInstance(v) ==
    CASE v.k = "inst" -> FALSE
      [] v.k \in {"list", "tuple"} ->
           \A i \in 1..Len(v.items) : NoInstance(v.items[i])
      [] v.k = "dict" -> \A i \in 1..Len(v.items) : NoInstance(v.items[i][2])
      [] OTHER -> TRUE

FieldNames(c) == {schema[c][i].name : i \in 1..Len(schema[c])}

BaseType == IF ItemType.t \in {"list", "tuple", "dict"} THEN ItemType.arg
            ELSE ItemType

\* the declared type of the positions is a record type, or a union resolved
\* through the type tag
ResolvesToRecord ==
    \/ BaseType.t = "rec"
    \/ /\ BaseType.t = "union"
       /\ OptTruthy(ItemOpts.add_type) /\ ItemOpts.subtype_table # NoTable

\* build_instance=False: an argument mapping keyed by field name, no
\* instance at any level, no index lookup (a substituted field keeps the
\* raw scalar, whatever the index holds)
ArgumentsOnly ==
    /\ (pc = "done" /\ ~build /\ ~IsErr(out)) =>
          /\ out.k = "dict"
          /\ PairKeys(out.items) \subseteq FieldNames(root)
          /\ NoInstance(out)
    /\ (RoundTrip /\ ~build /\ ~IsErr(out) /\ HoldsRecords) =>
          /\ HasKey(out, "item")
          /\ LET ps == Positions(ItemType, DictGet(out, "item"))
                 es == Elements(ItemVal)
             IN /\ Len(ps) = Len(es)
                /\ \A i \in 1..Len(ps) :
                      IF Truthy(ItemOpts.subs_by_attr)
                      THEN ps[i] = GetAttr(es[i], ItemOpts.subs_by_attr)
                      ELSE ps[i].k = "dict"
    /\ (RoundTrip /\ ~build /\ Truthy(ItemOpts.subs_by_attr)
           /\ BaseType.t = "rec" /\ ~ItemOpts.flatten) => ~IsErr(out)

InstancesAtPositions ==
    /\ out.k = "inst"
    /\ LET ps == Positions(ItemType, GetAttr(out, "item")) IN
       /\ Len(ps) = Len(Elements(ItemVal))
       /\ \A i \in 1..Len(ps) : ps[i].k = "inst"

\* C9 as stated: with build_instance=False no instance is constructed and no
\* index lookup is made at any level, every nested record is an argument
\* mapping and every substituted field holds the raw scalar; with
\* build_instance=True every one of those positions holds a constructed or
\* looked-up instance.
C9_TwoModesEveryPosition ==
    /\ ArgumentsOnly
    /\ (RoundTrip /\ build /\ ~IsErr(out) /\ HoldsRecords)
          => InstancesAtPositions

\* C9, amended: as stated for build_instance=False; with build_instance=True
\* every one of those positions whose declared type is a record type, or a
\* union resolved through its type tag and subtype_table, holds a
\* constructed or looked-up instance (a union-typed position without a type
\* tag keeps the raw tree value, substituted or not).
C9_TwoModes ==
    /\ ArgumentsOnly
    /\ (RoundTrip /\ build /\ ~IsErr(out) /\ HoldsRecords
           /\ ResolvesToRecord) => InstancesAtPositions

C9_Witness ==
    /\ RoundTrip /\ build /\ ~IsErr(out) /\ ResolvesToRecord
    /\ Truthy(ItemOpts.subs_by_attr)
    /\ ItemType.t = "dict" /\ Len(ItemVal.items) = 2
    /\ InstancesAtPositions

----------------------------------------------------------------------------
(* C10 *)

\* overwrite_key if set, else the field's own name
EffectiveKey(fld) ==
    IF fld.options.overwrite_key \in {NoneStr, ""} THEN fld.name
    ELSE fld.options.overwrite_key

\* the tree lacks the key of a non-flattened field that has no default
RequiredKeyMissing ==
    /\ tree.k = "dict"
    /\ \E i \in 1..Len(schema[root]) :
          LET fld == schema[root][i] IN
          /\ ~fld.options.flatten
          /\ ~fld.default.has
          /\ ~HasKey(tree, EffectiveKey(fld))

\* C10: when the input tree lacks the effective key of a non-flattened field
\* that has no default, deserialize_dataclass fails in both build_instance
\* modes; it never returns an argument mapping that silently omits the
\* field.
C10_MissingKey ==
    (pc = "done" /\ RequiredKeyMissing) => IsErr(out)

----------------------------------------------------------------------------
(* C11 *)

\* flatten=True on a field whose declared type, and runtime value, is a
\* primitive, a sequence or a mapping
FlattenedNonRecord ==
    /\ ItemOpts.flatten
    /\ ItemType.t \in {"prim", "list", "tuple", "dict"}

\* C11: for a field with flatten=True whose declared type (deserialize) or
\* runtime value (serialize) is a primitive, a sequence or a mapping, both
\* serialize_dataclass and deserialize_dataclass fail; neither ever returns
\* a result for such a field (the class of the error is left open here).
C11_FlattenValidity ==
    FlattenedNonRecord =>
      /\ Serialized => IsErr(tree)
      /\ pc = "done" => IsErr(out)

----------------------------------------------------------------------------
(* C12 *)

\* a type-tagged field (not substituted) that holds one record
TaggedRecord ==
    /\ OptTruthy(ItemOpts.add_type)
    /\ ~Truthy(ItemOpts.subs_by_attr)
    /\ ItemVal.k = "inst"

\* type_label if set; else "typ" when flatten is false; else the field's
\* effective key
TagKey ==
    IF ItemOpts.type_label # NoneStr THEN ItemOpts.type_label
    ELSE IF ~ItemOpts.flatten THEN "typ"
    ELSE EffectiveKey(ItemField)

\* the mapping that holds the field's record in tree t: the parent level
\* itself when flattened, else the entry under the effective key
TagLevel(t) ==
    IF ItemOpts.flatten THEN t ELSE DictGet(t, EffectiveKey(ItemField))

\* tree t holds an entry under the type-tag key at that level
TagHeld(t) ==
    /\ t.k = "dict"
    /\ ItemOpts.flatten \/ HasKey(t, EffectiveKey(ItemField))
    /\ TagLevel(t).k = "dict"
    /\ HasKey(TagLevel(t), TagKey)

\* the field's record is rebuilt: the instance, or its argument mapping
RecordRebuilt ==
    IF build THEN out = obj
    ELSE /\ out.k = "dict" /\ HasKey(out, "item")
         /\ DictGet(out, "item") = asdict(ItemVal)

----------------------------------------------------------------------------
(* C13 *)

\* a type-tagged record field whose add_type is a string, type_label unset
StringTagged ==
    /\ TaggedRecord
    /\ ItemOpts.add_type.isstr
    /\ ItemOpts.type_label = NoneStr

\* tree t holds an entry under key at the level of the field's record
HeldAtTagLevel(t, key) ==
    /\ t.k = "dict"
    /\ ItemOpts.flatten \/ HasKey(t, EffectiveKey(ItemField))
    /\ TagLevel(t).k = "dict"
    /\ HasKey(TagLevel(t), key)

\* C13: when add_type is a string s and type_label is unset, the
\* serializer stores the type tag under key s, and the deserializer reads
\* the tag from key s (so it resolves a type only from a tree that holds
\* key s).
C13_AddTypeString ==
    StringTagged =>
      /\ Serialized => HeldAtTagLevel(tree, ItemOpts.add_type.s)
      /\ (pc = "done" /\ ItemOpts.subtype_table # NoTable /\ ~IsErr(out))
            => HeldAtTagLevel(tree, ItemOpts.add_type.s)

----------------------------------------------------------------------------
(* C14 *)

\* the tag value the type_name option asks for, for a record of class c
RenderedName(c) ==
    LET name == ItemOpts.type_name IN
    IF name.k = "str" THEN Prim(name.s)
    ELSE IF name.f = "default" THEN Prim(c)
    ELSE Prim(CustomTypeName(c))

\* C14: the tag value written for a type-tagged field is a string: the
\* type's own name by default, the result of the function when type_name
\* is a function of the type, and the given string itself when type_name
\* is a string.
C14_TypeNameRendering ==
    (TaggedRecord /\ Serialized) =>
      /\ TagHeld(tree)
      /\ DictGet(TagLevel(tree), TagKey) = RenderedName(ItemVal.cls)

----------------------------------------------------------------------------
(* C15 *)

\* the entries the serializer writes for the i-th field of the root record
FieldEntries(i) ==
    LET fld == schema[root][i] IN
    _serialize_field(fld, GetAttr(obj, fld.name), FALSE)

\* two flattened fields of the root record (the one collision the
\* guarantee excepts)
TwoFlattened ==
    \E i, j \in 1..Len(schema[root]) :
        /\ i # j
        /\ schema[root][i].options.flatten
        /\ schema[root][j].options.flatten

\* C15: in the mapping serialize_dataclass produces for one record level,
\* every field's entries are present: an entry written for an earlier
\* field is never overwritten or dropped by a later field, except when two
\* flattened fields produce the same key.
C15_NoSilentKeyLoss ==
    (Serialized /\ ~IsErr(tree) /\ ~TwoFlattened) =>
      \A i \in 1..Len(schema[root]) :
         LET r == FieldEntries(i) IN
         \A key \in PairKeys(r.items) :
            /\ HasKey(tree, key)
            /\ DictGet(tree, key) = PairGet(r.items, key)

----------------------------------------------------------------------------
(* C16 *)

\* a sequence-valued field without options other than overwrite_key, whose
\* effective key is not the sibling's
SequenceField ==
    /\ ItemType.t \in {"list", "tuple"}
    /\ ItemOpts \in PlainOptions
    /\ EffectiveKey(ItemField) # SiblingName

\* C16: for a sequence-valued field at any nesting depth (including a
\* sequence whose elements are themselves sequences), serialize yields one
\* entry effective-key -> ordered sequence of the elements' serialized
\* values, no element of which is wrapped in a mapping keyed by the field's
\* key; deserialize applied to that tree with the declared
\* sequence-of-sequence type returns the original nested sequence.
C16_SequenceElementsNotKeyed ==
    SequenceField =>
      /\ Serialized =>
            /\ tree.k = "dict" /\ HasKey(tree, EffectiveKey(ItemField))
            /\ DictGet(tree, EffectiveKey(ItemField)) = asdict(ItemVal)
      /\ (RoundTrip /\ build /\ ItemType = NestedType) => out = obj

====
